---- MODULE Spec2Model ----
(***************************************************************************)
(* systemd-zram-generator: configuration resolution and unit generation.   *)
(*                                                                         *)
(* The model follows src/src/config.rs (Config::parse, read_devices, run)  *)
(* and src/src/generator.rs (run_generator, handle_device, make_parent,    *)
(* make_symlink, get_total_memory_kb).  One behaviour is one boot-time     *)
(* invocation of the generator, optionally followed by further invocations *)
(* with the same inputs against the files the earlier one left behind.     *)
(*                                                                         *)
(* Numbers keep their width: a u64 is an arbitrary-precision natural kept  *)
(* below 2^64, an f64 is sign * m * 2^e with m rounded to 53 bits          *)
(* (round-to-nearest, ties-to-even).  Naturals are little-endian sequences *)
(* of base-256 limbs because the model checker's integers are 32 bits.     *)
(***************************************************************************)
EXTENDS Integers, Sequences, FiniteSets, TLC

(***************************************************************************)
(* Arbitrary-precision naturals                                            *)
(***************************************************************************)
Min(a, b) == IF a < b THEN a ELSE b

RECURSIVE Pow2(_)
Pow2(k) == IF k = 0 THEN 1 ELSE 2 * Pow2(k - 1)

RECURSIVE Norm(_)
Norm(a) ==
    IF a = <<>> THEN a
    ELSE IF a[Len(a)] = 0 THEN Norm(SubSeq(a, 1, Len(a) - 1))
    ELSE a

RECURSIVE NatOf(_)
NatOf(n) == IF n = 0 THEN <<>> ELSE <<n % 256>> \o NatOf(n \div 256)

Limb(a, i) == IF i >= 1 /\ i <= Len(a) THEN a[i] ELSE 0

RECURSIVE AddFrom(_, _, _, _)
AddFrom(a, b, i, c) ==
    IF i > Len(a) /\ i > Len(b)
    THEN (IF c = 0 THEN <<>> ELSE <<c>>)
    ELSE <<(Limb(a, i) + Limb(b, i) + c) % 256>>
         \o AddFrom(a, b, i + 1, (Limb(a, i) + Limb(b, i) + c) \div 256)

Add(a, b) == Norm(AddFrom(a, b, 1, 0))

RECURSIVE MulSmallFrom(_, _, _, _)
MulSmallFrom(a, k, i, c) ==
    IF i > Len(a)
    THEN NatOf(c)
    ELSE <<(a[i] * k + c) % 256>> \o MulSmallFrom(a, k, i + 1, (a[i] * k + c) \div 256)

\* a * k for a machine-sized k (k < 2^22).
MulSmall(a, k) == Norm(MulSmallFrom(a, k, 1, 0))

ShiftLimbs(a, n) == IF a = <<>> THEN a ELSE [i \in 1..(Len(a) + n) |-> IF i <= n THEN 0 ELSE a[i - n]]

RECURSIVE MulFrom(_, _, _)
MulFrom(a, b, i) ==
    IF i > Len(b) THEN <<>>
    ELSE Add(ShiftLimbs(MulSmall(a, b[i]), i - 1), MulFrom(a, b, i + 1))

Mul(a, b) == MulFrom(a, b, 1)

RECURSIVE DivSmallFrom(_, _, _, _, _)
\* Long division from limb i down: q collects the quotient, r the remainder.
DivSmallFrom(a, k, i, r, q) ==
    IF i = 0 THEN [q |-> Norm(q), r |-> r]
    ELSE DivSmallFrom(a, k, i - 1, (r * 256 + a[i]) % k, <<(r * 256 + a[i]) \div k>> \o q)

\* Quotient and remainder of a by a machine-sized k (0 < k < 2^22).
DivSmall(a, k) == DivSmallFrom(a, k, Len(a), 0, <<>>)

ShiftL(a, k) == ShiftLimbs(MulSmall(a, Pow2(k % 8)), k \div 8)

ShiftR(a, k) ==
    IF Len(a) <= k \div 8 THEN <<>>
    ELSE DivSmall(SubSeq(a, (k \div 8) + 1, Len(a)), Pow2(k % 8)).q

RECURSIVE BitLenInt(_)
BitLenInt(n) == IF n = 0 THEN 0 ELSE 1 + BitLenInt(n \div 2)

BitLen(a) == IF a = <<>> THEN 0 ELSE 8 * (Len(a) - 1) + BitLenInt(a[Len(a)])

\* Bit k (counted from 0) of a.
TestBit(a, k) == (Limb(a, (k \div 8) + 1) \div Pow2(k % 8)) % 2

RECURSIVE LowLimbsZero(_, _)
LowLimbsZero(a, n) == n = 0 \/ (Limb(a, n) = 0 /\ LowLimbsZero(a, n - 1))

\* a mod 2^k = 0
LowZero(a, k) == LowLimbsZero(a, k \div 8) /\ Limb(a, (k \div 8) + 1) % Pow2(k % 8) = 0

RECURSIVE LessFrom(_, _, _)
LessFrom(a, b, i) ==
    IF i = 0 THEN FALSE
    ELSE IF a[i] # b[i] THEN a[i] < b[i]
    ELSE LessFrom(a, b, i - 1)

Less(a, b) ==
    IF Len(a) # Len(b) THEN Len(a) < Len(b) ELSE LessFrom(a, b, Len(a))

Zero == <<>>
One == <<1>>

(***************************************************************************)
(* u64                                                                     *)
(***************************************************************************)
\* u64::max_value() = 2^64 - 1 (config.rs:105)
U64Max == [i \in 1..8 |-> 255]

FitsU64(a) == BitLen(a) <= 64

\* The low 64 bits of a.
WrapU64(a) == Norm(SubSeq(a, 1, Min(Len(a), 8)))

Digits == "0123456789"
IsDigit(c) == \E d \in 1..10 : SubSeq(Digits, d, d) = c
DigitVal(c) == (CHOOSE d \in 1..10 : SubSeq(Digits, d, d) = c) - 1
CharAt(s, i) == IF i >= 1 /\ i <= Len(s) THEN SubSeq(s, i, i) ELSE ""

ParseOk(v) == [ok |-> TRUE, v |-> v, err |-> ""]
ParseErr(e) == [ok |-> FALSE, v |-> Zero, err |-> e]

RECURSIVE ParseDigitsU64(_, _, _)
ParseDigitsU64(s, i, acc) ==
    IF i > Len(s) THEN ParseOk(acc)
    ELSE IF ~IsDigit(CharAt(s, i)) THEN ParseErr("invalid digit found in string")
    ELSE IF ~FitsU64(acc) THEN ParseErr("number too large to fit in target type")
    ELSE ParseDigitsU64(s, i + 1, Add(MulSmall(acc, 10), NatOf(DigitVal(CharAt(s, i)))))

ParseU64Checked(r) ==
    IF r.ok /\ ~FitsU64(r.v) THEN ParseErr("number too large to fit in target type") ELSE r

\* str::parse::<u64>(): an optional "+", then one or more decimal digits.
ParseU64(s) ==
    IF s = "" THEN ParseErr("cannot parse integer from empty string")
    ELSE IF s = "+" \/ s = "-" THEN ParseErr("invalid digit found in string")
    ELSE ParseU64Checked(ParseDigitsU64(s, IF CharAt(s, 1) = "+" THEN 2 ELSE 1, Zero))

RECURSIVE ToDecimalFrom(_, _)
ToDecimalFrom(d, tail) ==
    IF d.q = Zero THEN SubSeq(Digits, d.r + 1, d.r + 1) \o tail
    ELSE ToDecimalFrom(DivSmall(d.q, 10), SubSeq(Digits, d.r + 1, d.r + 1) \o tail)

\* Display for u64: the decimal digits, no sign, no leading zeros.
ToDecimal(a) == ToDecimalFrom(DivSmall(a, 10), "")

(***************************************************************************)
(* f64: cls is "finite", "inf" or "nan"; a finite value is                 *)
(* (-1)^neg * m * 2^e with m of at most 53 significant bits.  Results      *)
(* below the normal range are kept exact: every use truncates them to 0.   *)
(***************************************************************************)
F64(neg, m, e) == [cls |-> "finite", neg |-> neg, m |-> m, e |-> IF m = Zero THEN 0 ELSE e]
F64Inf(neg) == [cls |-> "inf", neg |-> neg, m |-> Zero, e |-> 0]
F64NaN == [cls |-> "nan", neg |-> FALSE, m |-> Zero, e |-> 0]

\* A finite magnitude m * 2^e, or infinity when it exceeds f64::MAX.
F64Finite(neg, m, e) == IF BitLen(m) + e > 1024 THEN F64Inf(neg) ELSE F64(neg, m, e)

RoundUp(q, up) == IF up THEN Add(q, One) ELSE q

\* a with its low d bits rounded away, to nearest, ties to even; `sticky`
\* is set when nonzero bits lie below a.
RoundBits(a, sticky, d) ==
    IF d <= 0 THEN a
    ELSE RoundUp(ShiftR(a, d),
                 TestBit(a, d - 1) = 1 /\ (sticky \/ ~LowZero(a, d - 1) \/ TestBit(a, d) = 1))

\* The f64 of sign neg nearest to a * 2^e: a rounded to 53 significant bits.
F64Round(neg, a, sticky, e) ==
    IF BitLen(a) <= 53 THEN F64Finite(neg, a, e)
    ELSE F64Finite(neg, RoundBits(a, sticky, BitLen(a) - 53), e + BitLen(a) - 53)

\* `u as f64`
U64ToF64(u) == F64Round(FALSE, u, FALSE, 0)

\* `x / 1024.`: an exact scaling by 2^-10.
F64Div1024(x) == IF x.cls = "finite" THEN F64(x.neg, x.m, x.e - 10) ELSE x

IsZeroF64(x) == x.cls = "finite" /\ x.m = Zero

\* `x * y`
F64Mul(x, y) ==
    IF x.cls = "nan" \/ y.cls = "nan" THEN F64NaN
    ELSE IF x.cls = "inf" \/ y.cls = "inf"
    THEN (IF IsZeroF64(x) \/ IsZeroF64(y) THEN F64NaN ELSE F64Inf(x.neg # y.neg))
    ELSE F64Round(x.neg # y.neg, Mul(x.m, y.m), FALSE, x.e + y.e)

\* magnitude of x < magnitude of y, both finite
MagLess(x, y) == Less(ShiftL(x.m, x.e - Min(x.e, y.e)), ShiftL(y.m, y.e - Min(x.e, y.e)))

\* `x > y`
F64Gt(x, y) ==
    IF x.cls = "nan" \/ y.cls = "nan" THEN FALSE
    ELSE IF x.cls = "inf" THEN ~x.neg /\ ~(y.cls = "inf" /\ ~y.neg)
    ELSE IF y.cls = "inf" THEN y.neg
    ELSE IF x.m = Zero /\ y.m = Zero THEN FALSE
    ELSE IF x.neg # y.neg THEN y.neg
    ELSE IF x.neg THEN MagLess(x, y) ELSE MagLess(y, x)

\* `x as u64`: truncation toward zero, saturating; NaN gives 0.
F64ToU64(x) ==
    IF x.cls = "nan" THEN Zero
    ELSE IF x.neg THEN Zero
    ELSE IF x.cls = "inf" THEN U64Max
    ELSE IF x.e >= 0
    THEN (IF BitLen(x.m) + x.e > 64 THEN U64Max ELSE ShiftL(x.m, x.e))
    ELSE ShiftR(x.m, 0 - x.e)

RECURSIVE SpanDigits(_, _)
\* The index after the run of digits of s that starts at i.
SpanDigits(s, i) == IF IsDigit(CharAt(s, i)) THEN SpanDigits(s, i + 1) ELSE i

RECURSIVE DecNat(_, _, _, _)
\* The value of acc followed by the decimal digits s[i..j-1].
DecNat(s, i, j, acc) ==
    IF i >= j THEN acc
    ELSE IF Len(acc) < 0 THEN Zero
    ELSE DecNat(s, i + 1, j, Add(MulSmall(acc, 10), NatOf(DigitVal(CharAt(s, i)))))

RECURSIVE DecInt(_, _, _, _)
DecInt(s, i, j, acc) ==
    IF i >= j THEN acc ELSE DecInt(s, i + 1, j, 10 * acc + DigitVal(CharAt(s, i)))

RECURSIVE MulPow5(_, _)
MulPow5(a, k) ==
    IF k = 0 THEN a
    ELSE IF Len(a) < 0 THEN Zero
    ELSE MulPow5(MulSmall(a, 5), k - 1)

RECURSIVE DivPow5(_, _)
\* floor(d.q / 5^k), with d.r nonzero when a division left a remainder.
DivPow5(d, k) ==
    IF k = 0 THEN d
    ELSE IF d.r # 0 THEN DivPow5([q |-> DivSmall(d.q, 5).q, r |-> 1], k - 1)
    ELSE DivPow5(DivSmall(d.q, 5), k - 1)

F64RoundQuotient(neg, d, e) == F64Round(neg, d.q, d.r # 0, e)

\* The f64 nearest to n * 10^x.
DecToF64(neg, n, x) ==
    IF n = Zero THEN F64(neg, Zero, 0)
    ELSE IF x >= 0 THEN F64Round(neg, MulPow5(n, x), FALSE, x)
    ELSE F64RoundQuotient(neg,
                          DivPow5([q |-> ShiftL(n, 64 - 3 * x), r |-> 0], 0 - x),
                          4 * x - 64)

\* The exponent part of s starts at i5 (after "e" and a sign) and ends at i6.
ParseF64Exponent(s, neg, mant, nfrac, eneg, i5, i6) ==
    IF i6 = i5 \/ i6 > i5 + 3 \/ i6 # Len(s) + 1 THEN ParseErr("invalid float literal")
    ELSE ParseOk(DecToF64(neg, mant,
                          (IF eneg THEN 0 - DecInt(s, i5, i6, 0) ELSE DecInt(s, i5, i6, 0)) - nfrac))

ExponentStart(s, i3) ==
    IF CharAt(s, i3 + 1) = "+" \/ CharAt(s, i3 + 1) = "-" THEN i3 + 2 ELSE i3 + 1

\* The digits of s are s[i0..i1-1] and s[i2..i3-1].
ParseF64Digits(s, neg, i0, i1, i2, i3) ==
    IF (i1 - i0) + (i3 - i2) = 0 THEN ParseErr("invalid float literal")
    ELSE IF i3 = Len(s) + 1
    THEN ParseOk(DecToF64(neg, DecNat(s, i2, i3, DecNat(s, i0, i1, Zero)), i2 - i3))
    ELSE IF CharAt(s, i3) = "e" \/ CharAt(s, i3) = "E"
    THEN ParseF64Exponent(s, neg, DecNat(s, i2, i3, DecNat(s, i0, i1, Zero)), i3 - i2,
                          CharAt(s, i3 + 1) = "-",
                          ExponentStart(s, i3), SpanDigits(s, ExponentStart(s, i3)))
    ELSE ParseErr("invalid float literal")

ParseF64Fraction(s, neg, i0, i1, i2) == ParseF64Digits(s, neg, i0, i1, i2, SpanDigits(s, i2))

ParseF64Number(s, neg, i0, i1) ==
    ParseF64Fraction(s, neg, i0, i1, IF CharAt(s, i1) = "." THEN i1 + 1 ELSE i1)

ParseF64Unsigned(s, neg, i0) ==
    IF SubSeq(s, i0, Len(s)) = "inf" THEN ParseOk(F64Inf(neg))
    ELSE ParseF64Number(s, neg, i0, SpanDigits(s, i0))

\* str::parse::<f64>(): [sign] digits [. digits] [e [sign] digits], or
\* [sign] inf, or NaN; exponents of up to three digits are read.
ParseF64(s) ==
    IF s = "" THEN ParseErr("cannot parse float from empty string")
    ELSE IF s = "NaN" THEN ParseOk(F64NaN)
    ELSE ParseF64Unsigned(s, CharAt(s, 1) = "-",
                          IF CharAt(s, 1) = "+" \/ CharAt(s, 1) = "-" THEN 2 ELSE 1)

(***************************************************************************)
(* Strings, paths, errors                                                  *)
(***************************************************************************)
StartsWith(s, p) == Len(s) >= Len(p) /\ SubSeq(s, 1, Len(p)) = p
EndsWith(s, p) == Len(s) >= Len(p) /\ SubSeq(s, Len(s) - Len(p) + 1, Len(s)) = p
Contains(s, p) == \E i \in 1..(Len(s) - Len(p) + 1) : SubSeq(s, i, i + Len(p) - 1) = p

\* Path::join of a relative path.
Join(base, rel) == IF EndsWith(base, "/") THEN base \o rel ELSE base \o "/" \o rel

\* Every proper ancestor directory of path (the root directory aside).
Ancestors(path) == {SubSeq(path, 1, i - 1) : i \in {j \in 2..Len(path) : CharAt(path, j) = "/"}}

\* Path::parent of a path with at least two components.
Parent(path) == CHOOSE d \in Ancestors(path) : \A o \in Ancestors(path) : Len(o) <= Len(d)

\* A failure::Error: its message, and the path context attached to it if any.
NoErr == [msg |-> "", path |-> <<>>]
FormatErr(msg) == [msg |-> msg, path |-> <<>>]
\* An std::io::Error: the operating system's message, which names no path.
IoErr == [msg |-> "I/O error", path |-> <<>>]
\* ResultExt::with_path: attaches the path to the error.
WithPath(e, path) == [e EXCEPT !.path = <<path>>]
\* The text a user sees for the error.
Carries(e, text) == Contains(e.msg, text) \/ (e.path # <<>> /\ Contains(e.path[1], text))

(***************************************************************************)
(* config.rs                                                               *)
(***************************************************************************)
\* Device::new
NewDevice(name) ==
    [name |-> name,
     memory_limit_mb |-> MulSmall(NatOf(2), 1024),
     zram_fraction |-> F64(FALSE, One, -2),
     disksize |-> Zero]

\* env::var("ZRAM_GENERATOR_ROOT") with a trailing separator, or "/".
RootOf(env) == IF env = <<>> THEN "/" ELSE IF EndsWith(env[1], "/") THEN env[1] ELSE env[1] \o "/"

ArgumentError == FormatErr("This program requires 1 or 3 arguments")

\* The argument handling of Config::parse.  A --setup-device name shorter
\* than four bytes makes the slice &dev[0..4] panic.
ParseModule(argv) ==
    IF Len(argv) = 0 THEN [status |-> "err", err |-> ArgumentError, module |-> <<>>]
    ELSE IF argv[1] = "--setup-device"
    THEN (IF Len(argv) < 2
          THEN [status |-> "err", err |-> FormatErr("--setup-device requires device argument"), module |-> <<>>]
          ELSE IF Len(argv[2]) < 4
          THEN [status |-> "panic", err |-> NoErr, module |-> <<>>]
          ELSE IF SubSeq(argv[2], 1, 4) # "zram"
          THEN [status |-> "err", err |-> FormatErr("--setup-device requires device argument"), module |-> <<>>]
          ELSE [status |-> "ok", err |-> NoErr, module |-> <<"DeviceSetup", argv[2]>>])
    ELSE IF Len(argv) = 1 \/ Len(argv) = 3
    THEN [status |-> "ok", err |-> NoErr, module |-> <<"Generator", argv[1]>>]
    ELSE [status |-> "err", err |-> ArgumentError, module |-> <<>>]

MeminfoPath(r) == Join(r, "proc/meminfo")
ConfigPath(r) == Join(r, "etc/systemd/zram-generator.conf")

MemTotalValue(p) == [ok |-> p.ok, v |-> p.v, err |-> IF p.ok THEN NoErr ELSE FormatErr(p.err)]

RECURSIVE ScanMeminfo(_, _, _)
ScanMeminfo(lines, i, path) ==
    IF i > Len(lines)
    THEN [ok |-> FALSE, v |-> Zero, err |-> FormatErr("Couldn't find MemTotal in " \o path)]
    ELSE IF Len(lines[i]) >= 2 /\ lines[i][1] = "MemTotal:"
    THEN MemTotalValue(ParseU64(lines[i][2]))
    ELSE ScanMeminfo(lines, i + 1, path)

\* get_total_memory_kb: the value of the first line that starts with the
\* token "MemTotal:" and has a second token.
GetTotalMemoryKb(r, file) ==
    IF ~file.exists
    THEN [ok |-> FALSE, v |-> Zero, err |-> WithPath(IoErr, MeminfoPath(r))]
    ELSE ScanMeminfo(file.lines, 1, MeminfoPath(r))

\* `get_total_memory_kb(..)? as f64 / 1024.`
MemTotalMb(kb) == F64Div1024(U64ToF64(kb))

\* `a * k` on u64: the wrapped product, and whether it overflowed.
U64Mul(a, k) == [v |-> WrapU64(MulSmall(a, k)), overflow |-> ~FitsU64(MulSmall(a, k))]

DiskSizeBytes(kib) ==
    [v |-> U64Mul(kib.v, 1024).v, overflow |-> kib.overflow \/ U64Mul(kib.v, 1024).overflow]

\* `(zram_fraction * memtotal_mb) as u64 * 1024 * 1024`
DiskSize(zram_fraction, mb) == DiskSizeBytes(U64Mul(F64ToU64(F64Mul(zram_fraction, mb)), 1024))

\* The limit check with `>=` in place of `>`.
TooMuchMemoryOrEqual(mb, memory_limit_mb) == ~F64Gt(U64ToF64(memory_limit_mb), mb)

\* `memtotal_mb > device.memory_limit_mb as f64`
TooMuchMemory(mb, memory_limit_mb) == F64Gt(mb, U64ToF64(memory_limit_mb))

SectionName(section) == IF section.name = <<>> THEN "(no title)" ELSE section.name[1]

\* Every section taken for a device.
IsAnySection(section_name) == TRUE

IsZramSection(section_name) == StartsWith(section_name, "zram")

\* section.get(key)
Get(props, key) == IF key \in DOMAIN props THEN <<props[key]>> ELSE <<>>

ParseMemoryLimit(val) == IF val = "none" THEN ParseOk(U64Max) ELSE ParseU64(val)

ParseError(key, val, e) == FormatErr("Failed to parse " \o key \o " \"" \o val \o "\": " \o e)

\* What reading the devices gives: Ok(devices), Err(error), or a panic.
DevicesOk(devs) == [status |-> "ok", devs |-> devs, err |-> NoErr]
DevicesErr(e) == [status |-> "err", devs |-> <<>>, err |-> e]
DevicesPanic == [status |-> "panic", devs |-> <<>>, err |-> NoErr]

\* config.rs:103-110
SetMemoryLimit(dev, val, p) ==
    IF p.ok THEN DevicesOk(<<[dev EXCEPT !.memory_limit_mb = p.v]>>)
    ELSE DevicesErr(ParseError("memory-limit", val, p.err))

MemoryLimit(dev, val) ==
    IF val = <<>> THEN DevicesOk(<<dev>>) ELSE SetMemoryLimit(dev, val[1], ParseMemoryLimit(val[1]))

\* config.rs:112-115
SetZramFraction(dev, val, p) ==
    IF p.ok THEN DevicesOk(<<[dev EXCEPT !.zram_fraction = p.v]>>)
    ELSE DevicesErr(ParseError("zram-fraction", val, p.err))

ZramFraction(r, val) ==
    IF r.status # "ok" \/ val = <<>> THEN r ELSE SetZramFraction(r.devs[1], val[1], ParseF64(val[1]))

\* config.rs:127: with overflow checks compiled in, the multiplication panics.
SetDiskSize(dev, size, checks) ==
    IF size.overflow /\ checks THEN DevicesPanic ELSE DevicesOk(<<[dev EXCEPT !.disksize = size.v]>>)

\* config.rs:120-129
CheckLimit(r, mb, checks) ==
    IF r.status # "ok" THEN r
    ELSE IF TooMuchMemory(mb, r.devs[1].memory_limit_mb) THEN DevicesOk(<<>>)
    ELSE SetDiskSize(r.devs[1], DiskSize(r.devs[1].zram_fraction, mb), checks)

\* The closure of read_devices applied to one section: the section is
\* skipped, yields a device, fails with an error, or panics.
ReadSection(section, mb, checks) ==
    IF ~IsZramSection(SectionName(section)) THEN DevicesOk(<<>>)
    ELSE CheckLimit(ZramFraction(MemoryLimit(NewDevice(SectionName(section)),
                                             Get(section.props, "memory-limit")),
                                 Get(section.props, "zram-fraction")),
                    mb, checks)

\* Result::from_iter: the first failure, or all the devices in order.
Collect(one, rest) ==
    IF one.status # "ok" THEN one
    ELSE IF rest.status # "ok" THEN rest
    ELSE DevicesOk(one.devs \o rest.devs)

RECURSIVE ReadSections(_, _, _, _)
ReadSections(sections, i, mb, checks) ==
    IF i > Len(sections) THEN DevicesOk(<<>>)
    ELSE Collect(ReadSection(sections[i], mb, checks), ReadSections(sections, i + 1, mb, checks))

ReadDevicesWith(r, file, kb, checks) ==
    IF ~file.exists THEN DevicesOk(<<>>)
    ELSE IF ~kb.ok THEN DevicesErr(kb.err)
    ELSE IF ~file.syntax_ok THEN DevicesErr(WithPath(FormatErr("ini parse error"), ConfigPath(r)))
    ELSE ReadSections(file.sections, 1, MemTotalMb(kb.v), checks)

\* Config::read_devices
ReadDevices(r, file, mem, checks) == ReadDevicesWith(r, file, GetTotalMemoryKb(r, mem), checks)

(***************************************************************************)
(* generator.rs                                                            *)
(***************************************************************************)
ServiceName(name) == "swap-create@" \o name \o ".service"
SwapName(name) == "dev-" \o name \o ".swap"
ServicePath(output_directory, name) == Join(output_directory, ServiceName(name))
SwapPath(output_directory, name) == Join(output_directory, SwapName(name))
SymlinkPath(output_directory, name) == Join(Join(output_directory, "swap.target.wants"), SwapName(name))
TargetPath(name) == "../" \o SwapName(name)
ModulesLoadPath(r) == Join(r, "run/modules-load.d/zram.conf")
ModulesLoadContents == "zram\n"

ServiceContents(r, name, size) ==
    "[Unit]\nDescription=Create swap on " \o r \o "dev/%i\n"
    \o "Wants=systemd-modules-load.service\nAfter=systemd-modules-load.service\n"
    \o "After=dev-" \o name \o ".device\nDefaultDependencies=false\n\n"
    \o "[Service]\nType=oneshot\nExecStartPre=-modprobe zram\n"
    \o "ExecStart=sh -c 'echo " \o ToDecimal(size) \o " >" \o r \o "sys/block/%i/disksize'\n"
    \o "ExecStart=mkswap " \o r \o "dev/%i\n"

SwapContents(r, name) ==
    "[Unit]\nDescription=Compressed swap on " \o r \o "dev/" \o name \o "\n"
    \o "Requires=" \o ServiceName(name) \o "\nAfter=" \o ServiceName(name) \o "\n\n"
    \o "[Swap]\nWhat=" \o r \o "dev/" \o name \o "\nOptions=pri=100\n"

\* What the generator has put on the filesystem: path -> entry.
File(data) == [kind |-> "file", data |-> data]
Dir == [kind |-> "dir", data |-> ""]
Symlink(target) == [kind |-> "symlink", data |-> target]
NoFiles == <<>>

\* fs::write: the file is created (or truncated), then filled.  It can fail
\* before the file is opened, or after, leaving it short (here: empty).
FsWrite(f, path, contents, outcome) ==
    CASE outcome = "ok" -> (path :> File(contents)) @@ f
      [] outcome = "open_failed" -> f
      [] outcome = "write_failed" -> (path :> File("")) @@ f

\* fs::create_dir_all: the directory and its missing ancestors.
FsCreateDirAll(f, dir, existing) ==
    LET new == ((Ancestors(dir) \cup {dir}) \ existing) \ DOMAIN f
    IN  [d \in new |-> Dir] @@ f

\* symlink(2) refuses a path that exists.
SymlinkOutcomes(f, path) == IF path \in DOMAIN f THEN {"exists"} ELSE {"ok", "failed"}

\* The symlink made before the units are written.
HandleDeviceStepsSymlinkFirst == <<"make_parent", "symlink", "write_service", "write_swap">>

\* The order of the filesystem operations of handle_device.
HandleDeviceSteps == <<"write_service", "write_swap", "make_parent", "symlink">>

StepAfter(step) ==
    LET i == CHOOSE j \in 1..Len(HandleDeviceSteps) : HandleDeviceSteps[j] = step
    IN  IF i < Len(HandleDeviceSteps) THEN HandleDeviceSteps[i + 1] ELSE "for_devices"

\* virtualization_container: `systemd-detect-virt --container` exits with
\* success inside a container.
InContainer(status) == status = "yes"

\* The module-load file requested whether or not a device was made.
WantsModulesLoadAlways(made) == TRUE

\* `if devices_made` (generator.rs:48)
WantsModulesLoad(made) == made

(***************************************************************************)
(* The program                                                             *)
(***************************************************************************)
VARIABLES
    args,             \* the command line after the program name
    env_root,         \* ZRAM_GENERATOR_ROOT: <<>> or <<value>>
    conf,             \* <root>etc/systemd/zram-generator.conf
    meminfo,          \* <root>proc/meminfo
    detect,           \* what running systemd-detect-virt gives
    overflow_checks,  \* whether the build panics on integer overflow
    pc, root, module, devices, memtotal_mb, dev_i, devices_made, disksize,
    result, err,      \* how the run ended
    fs,               \* what the generator has written
    run,              \* the number of this invocation
    start_fs,         \* fs when this invocation started
    prev_result,      \* how the previous invocation ended
    faults,           \* failures of the environment in this invocation
    trace             \* the external operations of this invocation, in order

inputs == <<args, env_root, conf, meminfo, detect, overflow_checks>>
locals == <<root, module, devices, memtotal_mb, dev_i, devices_made, disksize>>
history == <<run, start_fs, prev_result>>
vars == <<inputs, pc, locals, result, err, fs, history, faults, trace>>

Event(op, path, ok) == [op |-> op, path |-> path, ok |-> ok]
output_directory == module[2]
\* Directories that exist before the generator runs.
Existing == Ancestors(Join(output_directory, ".")) \cup Ancestors(Join(root, "."))

Exit(res, e) == pc' = "exit" /\ result' = res /\ err' = e
Continue(next) == pc' = next /\ UNCHANGED <<result, err>>

\* Config::parse, up to the call of read_devices (config.rs:47-78)
ParseArgs ==
    /\ pc = "parse"
    /\ root' = RootOf(env_root)
    /\ LET m == ParseModule(args)
       IN  /\ module' = m.module
           /\ IF m.status = "ok" THEN Continue("read_devices") ELSE Exit(m.status, m.err)
    /\ UNCHANGED <<inputs, devices, memtotal_mb, dev_i, devices_made, disksize, fs, history, faults, trace>>

ReadDevicesReturns(r) ==
    /\ devices' = r.devs
    /\ IF r.status = "ok" THEN Continue("run") ELSE Exit(r.status, r.err)

ReadDevicesEvents(read) ==
    <<Event("config_exists", ConfigPath(root), conf.exists)>>
    \o (IF conf.exists THEN <<Event("read_meminfo", MeminfoPath(root), read)>> ELSE <<>>)
    \o (IF conf.exists /\ read THEN <<Event("load_config", ConfigPath(root), conf.syntax_ok)>> ELSE <<>>)

\* Config::read_devices (config.rs:80-131)
ReadDevicesStep ==
    /\ pc = "read_devices"
    /\ ReadDevicesReturns(ReadDevices(root, conf, meminfo, overflow_checks))
    /\ trace' = trace \o ReadDevicesEvents(GetTotalMemoryKb(root, meminfo).ok)
    /\ UNCHANGED <<inputs, root, module, memtotal_mb, dev_i, devices_made, disksize, fs, history, faults>>

\* Config::run (config.rs:133-138)
Run ==
    /\ pc = "run"
    /\ IF module[1] = "Generator" THEN Continue("run_generator") ELSE Exit("panic", NoErr)
    /\ UNCHANGED <<inputs, locals, fs, history, faults, trace>>

MemoryProbed(kb) ==
    /\ trace' = Append(trace, Event("read_meminfo", MeminfoPath(root), kb.ok))
    /\ IF kb.ok
       THEN memtotal_mb' = MemTotalMb(kb.v) /\ Continue("detect_virt")
       ELSE UNCHANGED memtotal_mb /\ Exit("err", kb.err)

\* run_generator: the memory probe (generator.rs:36-37)
GetTotalMemory ==
    /\ pc = "run_generator"
    /\ MemoryProbed(GetTotalMemoryKb(root, meminfo))
    /\ UNCHANGED <<inputs, root, module, devices, dev_i, devices_made, disksize, fs, history, faults>>

\* run_generator: the container check (generator.rs:39-42, 27-32)
VirtualizationContainer ==
    /\ pc = "detect_virt"
    /\ trace' = Append(trace, Event("detect", "systemd-detect-virt", detect # "fail"))
    /\ IF detect = "fail" THEN Exit("err", FormatErr("systemd-detect-virt call failed: I/O error"))
       ELSE IF InContainer(detect) THEN Exit("ok", NoErr)
       ELSE Continue("for_devices")
    /\ UNCHANGED <<inputs, locals, fs, history, faults>>

\* The head of handle_device (generator.rs:58-70)
HandleDevice(device, size) ==
    IF TooMuchMemory(memtotal_mb, device.memory_limit_mb)
    THEN dev_i' = dev_i + 1 /\ Continue("for_devices") /\ UNCHANGED disksize
    ELSE IF size.overflow /\ overflow_checks
    THEN Exit("panic", NoErr) /\ UNCHANGED <<dev_i, disksize>>
    ELSE disksize' = size.v /\ Continue(HandleDeviceSteps[1]) /\ UNCHANGED dev_i

\* run_generator: the loop over the devices and what follows it
\* (generator.rs:44-48, 55)
ForDevices ==
    /\ pc = "for_devices"
    /\ IF dev_i > Len(devices)
       THEN /\ IF WantsModulesLoad(devices_made) THEN Continue("modules_parent") ELSE Exit("ok", NoErr)
            /\ UNCHANGED <<dev_i, disksize>>
       ELSE HandleDevice(devices[dev_i], DiskSize(devices[dev_i].zram_fraction, memtotal_mb))
    /\ UNCHANGED <<inputs, root, module, devices, memtotal_mb, devices_made, fs, history, faults, trace>>

\* A step of handle_device is done: the next one, or Ok(true) to the loop.
Advance(step) ==
    /\ pc' = StepAfter(step)
    /\ IF StepAfter(step) = "for_devices"
       THEN dev_i' = dev_i + 1 /\ devices_made' = TRUE
       ELSE UNCHANGED <<dev_i, devices_made>>
    /\ UNCHANGED <<result, err>>

\* fs::write(&service_path, contents).with_path(service_path)? (generator.rs:72-92)
WriteService ==
    /\ pc = "write_service"
    /\ LET path == ServicePath(output_directory, devices[dev_i].name)
       IN  \E outcome \in {"ok", "open_failed", "write_failed"} :
             /\ fs' = FsWrite(fs, path, ServiceContents(root, devices[dev_i].name, disksize), outcome)
             /\ trace' = Append(trace, Event("write", path, outcome = "ok"))
             /\ faults' = IF outcome = "ok" THEN faults ELSE faults + 1
             /\ IF outcome = "ok" THEN Advance("write_service")
                ELSE Exit("err", WithPath(IoErr, path)) /\ UNCHANGED <<dev_i, devices_made>>
    /\ UNCHANGED <<inputs, root, module, devices, memtotal_mb, disksize, history>>

\* fs::write(&swap_path, contents).with_path(swap_path)? (generator.rs:94-112)
WriteSwap ==
    /\ pc = "write_swap"
    /\ LET path == SwapPath(output_directory, devices[dev_i].name)
       IN  \E outcome \in {"ok", "open_failed", "write_failed"} :
             /\ fs' = FsWrite(fs, path, SwapContents(root, devices[dev_i].name), outcome)
             /\ trace' = Append(trace, Event("write", path, outcome = "ok"))
             /\ faults' = IF outcome = "ok" THEN faults ELSE faults + 1
             /\ IF outcome = "ok" THEN Advance("write_swap")
                ELSE Exit("err", WithPath(IoErr, path)) /\ UNCHANGED <<dev_i, devices_made>>
    /\ UNCHANGED <<inputs, root, module, devices, memtotal_mb, disksize, history>>

\* make_symlink: make_parent(src)? (generator.rs:114-116, 22, 14-19)
MakeSymlinkParent ==
    /\ pc = "make_parent"
    /\ LET dir == Parent(SymlinkPath(output_directory, devices[dev_i].name))
       IN  \E ok \in BOOLEAN :
             /\ fs' = IF ok THEN FsCreateDirAll(fs, dir, Existing) ELSE fs
             /\ trace' = Append(trace, Event("create_dir_all", dir, ok))
             /\ faults' = IF ok THEN faults ELSE faults + 1
             /\ IF ok THEN Advance("make_parent")
                ELSE Exit("err", IoErr) /\ UNCHANGED <<dev_i, devices_made>>
    /\ UNCHANGED <<inputs, root, module, devices, memtotal_mb, disksize, history>>

\* make_symlink: symlink(dst, src).with_path(src)? (generator.rs:23-24, 117)
MakeSymlink ==
    /\ pc = "symlink"
    /\ LET path == SymlinkPath(output_directory, devices[dev_i].name)
       IN  \E outcome \in SymlinkOutcomes(fs, path) :
             /\ fs' = IF outcome = "ok" THEN (path :> Symlink(TargetPath(devices[dev_i].name))) @@ fs ELSE fs
             /\ trace' = Append(trace, Event("symlink", path, outcome = "ok"))
             /\ faults' = IF outcome = "failed" THEN faults + 1 ELSE faults
             /\ IF outcome = "ok" THEN Advance("symlink")
                ELSE Exit("err", WithPath(IoErr, path)) /\ UNCHANGED <<dev_i, devices_made>>
    /\ UNCHANGED <<inputs, root, module, devices, memtotal_mb, disksize, history>>

\* make_parent(&modules_load_path)? (generator.rs:50-51)
ModulesLoadParent ==
    /\ pc = "modules_parent"
    /\ LET dir == Parent(ModulesLoadPath(root))
       IN  \E ok \in BOOLEAN :
             /\ fs' = IF ok THEN FsCreateDirAll(fs, dir, Existing) ELSE fs
             /\ trace' = Append(trace, Event("create_dir_all", dir, ok))
             /\ faults' = IF ok THEN faults ELSE faults + 1
             /\ IF ok THEN Continue("modules_write") ELSE Exit("err", IoErr)
    /\ UNCHANGED <<inputs, locals, history>>

\* fs::write(&modules_load_path, "zram\n").with_path(..)? (generator.rs:52-55)
ModulesLoadWrite ==
    /\ pc = "modules_write"
    /\ LET path == ModulesLoadPath(root)
       IN  \E outcome \in {"ok", "open_failed", "write_failed"} :
             /\ fs' = FsWrite(fs, path, ModulesLoadContents, outcome)
             /\ trace' = Append(trace, Event("write", path, outcome = "ok"))
             /\ faults' = IF outcome = "ok" THEN faults ELSE faults + 1
             /\ IF outcome = "ok" THEN Exit("ok", NoErr) ELSE Exit("err", WithPath(IoErr, path))
    /\ UNCHANGED <<inputs, locals, history>>

\* The generator is invoked again, with the same inputs, on what it left.
MaxRuns == 2

Rerun ==
    /\ pc = "exit"
    /\ run < MaxRuns
    /\ run' = run + 1
    /\ start_fs' = fs
    /\ prev_result' = result
    /\ pc' = "parse"
    /\ root' = "" /\ module' = <<>> /\ devices' = <<>> /\ memtotal_mb' = F64(FALSE, Zero, 0)
    /\ dev_i' = 1 /\ devices_made' = FALSE /\ disksize' = Zero
    /\ result' = "running" /\ err' = NoErr /\ faults' = 0 /\ trace' = <<>>
    /\ UNCHANGED <<inputs, fs>>

Next ==
    \/ ParseArgs
    \/ ReadDevicesStep
    \/ Run
    \/ GetTotalMemory
    \/ VirtualizationContainer
    \/ ForDevices
    \/ WriteService
    \/ WriteSwap
    \/ MakeSymlinkParent
    \/ MakeSymlink
    \/ ModulesLoadParent
    \/ ModulesLoadWrite
    \/ Rerun

\* The state of a fresh invocation on an empty output directory.
Start ==
    /\ pc = "parse"
    /\ root = "" /\ module = <<>> /\ devices = <<>> /\ memtotal_mb = F64(FALSE, Zero, 0)
    /\ dev_i = 1 /\ devices_made = FALSE /\ disksize = Zero
    /\ result = "running" /\ err = NoErr
    /\ fs = NoFiles /\ run = 1 /\ start_fs = NoFiles /\ prev_result = "none"
    /\ faults = 0 /\ trace = <<>>

(***************************************************************************)
(* Inputs                                                                  *)
(***************************************************************************)
MaxSections == 2

Section(name, props) == [name |-> name, props |-> props]
ConfigFile(sections) == [exists |-> TRUE, syntax_ok |-> TRUE, sections |-> sections]
NoConfigFile == [exists |-> FALSE, syntax_ok |-> FALSE, sections |-> <<>>]
BadConfigFile == [exists |-> TRUE, syntax_ok |-> FALSE, sections |-> <<>>]
MemFile(lines) == [exists |-> TRUE, lines |-> lines]
NoMemFile == [exists |-> FALSE, lines |-> <<>>]
MemTotalLine(kb) == <<"MemTotal:", kb, "kB">>

\* Sequences of at most n sections of the pool, no name twice.
Configs(pool, n) ==
    {ConfigFile(q) : q \in {q \in UNION {[1..k -> pool] : k \in 0..n} :
                              \A i, j \in DOMAIN q : i # j => q[i].name # q[j].name}}

SectionPool ==
    { Section(<<"zram0">>, <<>>),
      Section(<<"zram1">>, ("memory-limit" :> "none") @@ ("zram-fraction" :> "0.5")),
      Section(<<"zram2">>, ("memory-limit" :> "12MB") @@ ("zram-fraction" :> "0.5")),
      Section(<<"zram3">>, ("zram-fraction" :> "half") @@ ("compression" :> "lz4")),
      Section(<<"xzram9">>, ("memory-limit" :> "lots")),
      Section(<<>>, ("zram-fraction" :> "much")) }

MemFiles ==
    { NoMemFile,
      MemFile(<<>>),
      MemFile(<<MemTotalLine("unknown")>>),
      MemFile(<<<<"MemFree:", "1", "kB">>, <<"MemTotal:">>, MemTotalLine("1048576")>>),
      MemFile(<<MemTotalLine("4194304")>>) }

ArgLists ==
    { <<>>, <<"/out", "/early">>, <<"/out", "/early", "/late">>,
      <<"/out", "/early", "/late", "x">>,
      <<"--setup-device">>, <<"--setup-device", "zram0">>, <<"--setup-device", "sda1">>,
      <<"--setup-device", "zr">> }

\* No input of this specification overflows the disksize, so one build
\* stands for both; InitNum has the inputs that tell them apart.
Init ==
    /\ args \in ArgLists
    /\ env_root \in {<<>>, <<"/r">>}
    /\ conf \in {NoConfigFile, BadConfigFile} \cup Configs(SectionPool, MaxSections)
    /\ meminfo \in MemFiles
    /\ detect \in {"fail", "yes", "no"}
    /\ overflow_checks = FALSE
    /\ Start

Spec == Init /\ [][Next]_vars

\* One zram section, over the numeric range of its two keys and of MemTotal.
Limits == {"none", "0", "4096", "9007199254740992", "18446744073709551615"}
Fractions == {"0.5", "-0.5", "0.3333333333333333", "NaN", "inf", "-inf",
              "17592186044416", "1e30", "4e9"}
MemTotals == {"0", "3072", "4194304", "4194305", "4195328",
              "9223372036854776832", "18446744073709551615"}

NumSections ==
    {Section(<<"zram0">>, l @@ f) :
        l \in {<<>>} \cup {("memory-limit" :> v) : v \in Limits},
        f \in {<<>>} \cup {("zram-fraction" :> v) : v \in Fractions}}

InitNum ==
    /\ args = <<"/out">>
    /\ env_root = <<>>
    /\ conf \in {ConfigFile(<<sec>>) : sec \in NumSections}
    /\ meminfo \in {MemFile(<<MemTotalLine(kb)>>) : kb \in MemTotals}
    /\ detect = "no"
    /\ overflow_checks \in BOOLEAN
    /\ Start

SpecNum == InitNum /\ [][Next]_vars

(***************************************************************************)
(* Properties                                                              *)
(***************************************************************************)
GeneratorArgs == (Len(args) = 1 \/ Len(args) = 3) /\ args[1] # "--setup-device"

\* The three artifacts of a device in the output directory.
Artifacts(name) ==
    IF args = <<>> THEN {}
    ELSE {ServicePath(args[1], name), SwapPath(args[1], name), SymlinkPath(args[1], name)}

Ended == pc = "exit"
EndedWell == pc = "exit" /\ result = "ok" /\ faults = 0

\* The keys of a section as the configuration file gives them.
LimitText(section) == Get(section.props, "memory-limit")
FractionText(section) == Get(section.props, "zram-fraction")
LimitValue(section) ==
    IF LimitText(section) = <<>> THEN NatOf(2048) ELSE ParseMemoryLimit(LimitText(section)[1]).v
FractionValue(section) ==
    IF FractionText(section) = <<>> THEN F64(FALSE, One, -2) ELSE ParseF64(FractionText(section)[1]).v

\* MemTotal of the one-line memory file, in kB.
MemTotalKb == ParseU64(meminfo.lines[1][2]).v

\* MemTotal kB / 1024 > limit, in exact arithmetic.
ExceedsLimit(kb, limit) == Less(MulSmall(limit, 1024), kb)

\* u64 -> f64 is exact below 2^53.
ExactlyRepresented(kb) == BitLen(kb) <= 53

\* C1 as stated: after a run that ended well, the device of every zram
\* section is excluded (none of its three artifacts exists) if and only if
\* MemTotal kB / 1024, not rounded, strictly exceeds its memory limit;
\* with memory-limit = none it is included.
C1_Claim ==
    EndedWell =>
        \A i \in DOMAIN conf.sections :
            /\ (Artifacts(SectionName(conf.sections[i])) \cap DOMAIN fs = {})
                   <=> ExceedsLimit(MemTotalKb, LimitValue(conf.sections[i]))
            /\ LimitText(conf.sections[i]) = <<"none">>
                   => Artifacts(SectionName(conf.sections[i])) \subseteq DOMAIN fs

\* C1 amended: the same, for MemTotal below 2^53 kB, where the conversion
\* of MemTotal to f64 is exact; a device with memory-limit = none is
\* included for every MemTotal.
C1_ExcludedIffAboveLimit ==
    EndedWell =>
        \A i \in DOMAIN conf.sections :
            /\ ExactlyRepresented(MemTotalKb) =>
                   ((Artifacts(SectionName(conf.sections[i])) \cap DOMAIN fs = {})
                        <=> ExceedsLimit(MemTotalKb, LimitValue(conf.sections[i])))
            /\ ~ExceedsLimit(MemTotalKb, LimitValue(conf.sections[i]))
                   => Artifacts(SectionName(conf.sections[i])) \subseteq DOMAIN fs
            /\ LimitText(conf.sections[i]) = <<"none">>
                   => Artifacts(SectionName(conf.sections[i])) \subseteq DOMAIN fs

\* A device whose limit equals the total memory has been emitted.
C1_Witness ==
    /\ EndedWell
    /\ MemTotalKb = NatOf(4194304)
    /\ LimitText(conf.sections[1]) = <<"4096">>
    /\ Artifacts("zram0") \subseteq DOMAIN fs

\* floor(x * kb / 1024) for a finite x >= 0, in exact arithmetic.
FloorMb(x, kb) ==
    IF x.e - 10 >= 0 THEN ShiftL(Mul(x.m, kb), x.e - 10) ELSE ShiftR(Mul(x.m, kb), 10 - x.e)

\* A negative product has no floor among the values a disksize can take.
NegativeProduct(x, kb) == x.neg /\ x.m # Zero /\ kb # Zero

\* C2 as stated: the disksize resolved for an emitted device, and written
\* into its service unit, is floor(fraction * totalMB) * 1024 * 1024 exactly,
\* for every finite fraction, negative and huge ones included.
C2_Claim ==
    \A i \in DOMAIN conf.sections :
        (/\ FractionValue(conf.sections[i]).cls = "finite"
         /\ ServicePath(args[1], SectionName(conf.sections[i])) \in DOMAIN fs
         /\ fs[ServicePath(args[1], SectionName(conf.sections[i]))].data # "")
        => /\ ~NegativeProduct(FractionValue(conf.sections[i]), MemTotalKb)
           /\ fs[ServicePath(args[1], SectionName(conf.sections[i]))].data
                  = ServiceContents(RootOf(env_root), SectionName(conf.sections[i]),
                                    ShiftL(FloorMb(FractionValue(conf.sections[i]), MemTotalKb), 20))

\* C3 as stated: the container check is the first thing a generation run
\* does, it is done once, and a run in a container ends in success with no
\* file written, whatever the configuration and the memory file hold.
C3_Claim ==
    (Ended /\ GeneratorArgs /\ InContainer(detect))
    => /\ result = "ok"
       /\ fs = start_fs
       /\ Cardinality({i \in DOMAIN trace : trace[i].op = "detect"}) = 1
       /\ trace[1].op = "detect"

\* C4 as stated: with no configuration file a generation run succeeds and
\* writes nothing, whether or not the memory file exists or can be parsed.
C4_Claim ==
    (Ended /\ GeneratorArgs /\ ~conf.exists /\ detect # "fail")
    => result = "ok" /\ fs = start_fs

\* C5 as stated: after a successful run on an empty output directory, a
\* second run with the same inputs succeeds too and leaves every unit file
\* and symlink as the first run made it.
C5_Claim ==
    (Ended /\ run = 2 /\ prev_result = "ok" /\ faults = 0)
    => result = "ok" /\ fs = start_fs

\* A device was emitted in this run: handle_device returned Ok(true).
Emitted == \E i \in DOMAIN trace : trace[i].op = "symlink" /\ trace[i].ok

ModulesLoadExists == ModulesLoadPath(RootOf(env_root)) \in DOMAIN fs
ModulesLoadComplete == fs[ModulesLoadPath(RootOf(env_root))] = File(ModulesLoadContents)
StartedWithoutModulesLoad == ModulesLoadPath(RootOf(env_root)) \notin DOMAIN start_fs

\* C6 as stated: after any run that started without the module-load file,
\* successful or aborted, the file exists if and only if a device was
\* emitted in the run, and then holds exactly "zram\n".
C6_Claim ==
    (Ended /\ StartedWithoutModulesLoad)
    => /\ ModulesLoadExists <=> Emitted
       /\ ModulesLoadExists => ModulesLoadComplete

\* C6 amended: after a run that started without the module-load file and
\* ended in success, the file exists if and only if a device was emitted,
\* and then holds exactly "zram\n"; after an aborted run the file exists
\* only if a device was emitted.
C6_ModulesLoadIffEmitted ==
    (Ended /\ StartedWithoutModulesLoad)
    => /\ ModulesLoadExists => Emitted
       /\ result = "ok" => /\ Emitted => ModulesLoadExists
                           /\ ModulesLoadExists => ModulesLoadComplete

\* A successful run that emitted a device and wrote the module-load file.
C6_Witness ==
    /\ Ended /\ result = "ok" /\ StartedWithoutModulesLoad
    /\ Emitted /\ ModulesLoadExists /\ ModulesLoadComplete

\* The last external operation of the run failed.
LastFailed == trace # <<>> /\ ~trace[Len(trace)].ok

\* C7 as stated: a failed filesystem operation of the emission ends the
\* run at once with an error that carries the path of that operation, and
\* what was written before stays as it was.
C7_Claim ==
    \A i \in DOMAIN trace :
        (trace[i].op \in {"create_dir_all", "write", "symlink"} /\ ~trace[i].ok)
        => /\ Ended /\ result = "err"
           /\ i = Len(trace)
           /\ Carries(err, trace[i].path)
           /\ DOMAIN start_fs \subseteq DOMAIN fs
           /\ \A j \in 1..(i - 1) :
                  (trace[j].op \in {"write", "symlink"} /\ trace[j].ok)
                  => (trace[j].path \in DOMAIN fs /\ fs[trace[j].path].data # "")

\* The value of a key of a zram section does not parse.
BadLimit(section) ==
    /\ IsZramSection(SectionName(section))
    /\ LimitText(section) # <<>>
    /\ ~ParseMemoryLimit(LimitText(section)[1]).ok
BadFraction(section) ==
    /\ IsZramSection(SectionName(section))
    /\ FractionText(section) # <<>>
    /\ ~ParseF64(FractionText(section)[1]).ok

\* read_devices gets as far as the sections of the configuration file.
SectionsRead ==
    /\ ParseModule(args).status = "ok"
    /\ conf.exists /\ conf.syntax_ok
    /\ GetTotalMemoryKb(RootOf(env_root), meminfo).ok

\* The error names the file, the section, the literal and the cause.
ReportsValue(section, text, cause) ==
    /\ Carries(err, ConfigPath(RootOf(env_root)))
    /\ Carries(err, SectionName(section))
    /\ Carries(err, text)
    /\ Carries(err, cause)

\* C8 as stated: when a zram section has a memory-limit or zram-fraction
\* that does not parse, the run ends with an error that carries the path of
\* the configuration file, the section name, the literal and the parse
\* error, and nothing has been written.
C8_Claim ==
    (Ended /\ run = 1 /\ SectionsRead
       /\ \E i \in DOMAIN conf.sections : BadLimit(conf.sections[i]) \/ BadFraction(conf.sections[i]))
    => /\ result = "err"
       /\ fs = NoFiles
       /\ \E i \in DOMAIN conf.sections :
            \/ /\ BadLimit(conf.sections[i])
               /\ ReportsValue(conf.sections[i], LimitText(conf.sections[i])[1],
                               ParseMemoryLimit(LimitText(conf.sections[i])[1]).err)
            \/ /\ BadFraction(conf.sections[i])
               /\ ReportsValue(conf.sections[i], FractionText(conf.sections[i])[1],
                               ParseF64(FractionText(conf.sections[i])[1]).err)

RECURSIVE OnlyZram(_)
\* The sections whose name starts with "zram", in order.
OnlyZram(sections) ==
    IF sections = <<>> THEN <<>>
    ELSE (IF StartsWith(SectionName(Head(sections)), "zram") THEN <<Head(sections)>> ELSE <<>>)
         \o OnlyZram(Tail(sections))

\* The configuration file without its other sections.
WithoutOthers == [conf EXCEPT !.sections = OnlyZram(conf.sections)]

\* read_devices has returned in this run.
DevicesRead == trace # <<>>

\* What reading the configuration without the other sections gives is what
\* the run has read, and a failure of it is how the run ended.
SameAsRead(r) ==
    /\ devices = r.devs
    /\ r.status # "ok" => (Ended /\ result = r.status /\ err = r.err)
    /\ (r.status = "ok" /\ Ended /\ result = "err") => Len(trace) > Len(ReadDevicesEvents(TRUE))

\* C9: a section whose name does not start with "zram", the untitled one
\* included, gives no device and no artifact and does not make the run fail,
\* whatever its keys hold: the devices read, their order, and a failure of
\* reading them are those of the configuration without such sections.
C9_OtherSectionsIgnored ==
    /\ \A i \in DOMAIN devices : StartsWith(devices[i].name, "zram")
    /\ \A i \in DOMAIN conf.sections :
           ~StartsWith(SectionName(conf.sections[i]), "zram")
           => Artifacts(SectionName(conf.sections[i])) \cap DOMAIN fs = {}
    /\ DevicesRead => SameAsRead(ReadDevices(RootOf(env_root), WithoutOthers, meminfo, overflow_checks))

\* A run succeeded and emitted the device that follows a section of another
\* name whose memory-limit does not parse.
C9_Witness ==
    /\ Ended /\ result = "ok" /\ run = 1
    /\ Len(conf.sections) = 2
    /\ SectionName(conf.sections[1]) = "xzram9"
    /\ ~ParseMemoryLimit(LimitText(conf.sections[1])[1]).ok
    /\ Artifacts(SectionName(conf.sections[2])) \subseteq DOMAIN fs

\* The unit at path exists; in a run that started on an empty output
\* directory it is complete too.
Written(path) ==
    /\ path \in DOMAIN fs
    /\ fs[path].kind = "file"
    /\ start_fs = NoFiles => fs[path].data # ""

\* Every device of devs has its three artifacts.
AllEmitted(devs) ==
    \A i \in DOMAIN devs :
        /\ Written(ServicePath(args[1], devs[i].name))
        /\ Written(SwapPath(args[1], devs[i].name))
        /\ SymlinkPath(args[1], devs[i].name) \in DOMAIN fs

\* C10: in every state, a device whose activation symlink exists has its
\* service unit and its swap unit, and once the module-load file exists
\* every eligible device (one that passes the limit check) has its three
\* artifacts.
C10_ArtifactOrder ==
    /\ \A i \in DOMAIN conf.sections :
           (Len(args) > 0 /\ SymlinkPath(args[1], SectionName(conf.sections[i])) \in DOMAIN fs)
           => /\ Written(ServicePath(args[1], SectionName(conf.sections[i])))
              /\ Written(SwapPath(args[1], SectionName(conf.sections[i])))
    /\ ModulesLoadExists
           => AllEmitted(ReadDevices(RootOf(env_root), conf, meminfo, overflow_checks).devs)

\* Two devices have been emitted and the module-load file is being written.
C10_Witness ==
    /\ run = 1 /\ Len(devices) = 2
    /\ ModulesLoadExists
    /\ \A i \in DOMAIN devices : SymlinkPath(args[1], devices[i].name) \in DOMAIN fs

====
